---- MODULE Spec2Model ----
(***************************************************************************)
(* Frame buffers and pixel-format conversion of the UVC capture library    *)
(* (src/src/frame.c).  One destination frame `out` is created, reused as   *)
(* the target of conversions and duplications of the delivered source      *)
(* frame `in`, and released.  Memory is a heap of blocks; a pointer is a   *)
(* block address, 0 is NULL.                                               *)
(***************************************************************************)
EXTENDS Integers, Sequences, FiniteSets, TLC

VARIABLES
  in,        \* the source frame delivered by the transport layer
  out,       \* the destination frame (meaningful while outLive)
  outLive,   \* whether the destination frame's control structure exists
  heap,      \* address -> [live, mem]: the blocks of memory
  op,        \* the last operation called
  ret,       \* what the last operation returned ("CRASH": it did not return)
  reallocs,  \* how many times the last operation called realloc on out->data
  asked,     \* the sizes the last operation asked of uvc_ensure_frame_size,
             \* or the size uvc_allocate_frame was called with
  ub,        \* the undefined behaviour the last operation ran into
  cb         \* the capture callback: its statics, its position, its files

vars == <<in, out, outLive, heap, op, ret, reallocs, asked, ub, cb>>

----------------------------------------------------------------------------
(* Bounds of the model *)

MaxHeight == 1       \* source frames are 1..MaxHeight rows high
ArenaBlocks == 3     \* blocks the allocator can hand out

Widths == {4, 8}                     \* source widths, in pixels
Variants == {1, 2}                   \* variants of a delivered frame
BorrowCaps == {0, 12, 24}            \* capacities of caller-supplied buffers
EnsureSizes == {0, 8, 24}            \* sizes asked of the allocator directly

Indet == 255 + 1     \* an indeterminate byte: uninitialised, or read out of bounds

Formats == {"YUYV", "UYVY", "RGB", "BGR", "MJPEG", "GRAY8"}

NULL == 0
SrcData == 1         \* the transport's payload buffer
SrcMeta == 2         \* the transport's metadata buffer
CallerBuf == 3       \* the buffer a caller lends to a frame it builds itself
Arena == 4 .. (3 + ArenaBlocks)
Addr == {SrcData, SrcMeta, CallerBuf} \cup Arena

FreeBlock == [live |-> FALSE, mem |-> << >>]
Block(m) == [live |-> TRUE, mem |-> m]

Fresh(n) == [i \in 1..n |-> Indet]   \* n bytes just obtained from malloc

----------------------------------------------------------------------------
(* Frames *)

ZeroFrame ==
  [ width |-> 0, height |-> 0, frame_format |-> "UNKNOWN", step |-> 0,
    sequence |-> 0, capture_time |-> 0, capture_time_finished |-> 0,
    source |-> "null", data |-> NULL, data_bytes |-> 0,
    metadata |-> NULL, metadata_bytes |-> 0,
    library_owns_data |-> FALSE, time_stamp |-> NULL ]

DevHandle == "devh"

BytesPerPixel(fmt) ==
  CASE fmt \in {"YUYV", "UYVY", "GRAY16"} -> 2
    [] fmt \in {"RGB", "BGR"} -> 3
    [] OTHER -> 1

ByteSamples == <<0, 16, 90, 128, 200, 235, 255>>

\* Byte i (0-based) of payload pattern p.
PayloadByte(p, i) ==
  CASE p = 0 -> IF i % 2 = 0 THEN 235 ELSE 128
    [] p = 1 -> IF i % 8 < 4 THEN (IF i % 4 = 3 THEN 0 ELSE 255)
                             ELSE (IF i % 4 = 1 THEN 255 ELSE 0)
    [] OTHER -> ByteSamples[((i * (p + 1) + (i \div 4) + p) % Len(ByteSamples)) + 1]

Payload(p, n) == [i \in 1..n |-> PayloadByte(p, i - 1)]

\* A frame as the transport delivers it: geometry, format, payload and timing set.
SourceFrame(fmt, w, h, seq, nmeta) ==
  [ ZeroFrame EXCEPT
      !.width = w, !.height = h, !.frame_format = fmt,
      !.step = w * BytesPerPixel(fmt),
      !.sequence = seq, !.capture_time = 100 + seq,
      !.capture_time_finished = 200 + seq,
      !.source = DevHandle,
      !.data = SrcData, !.data_bytes = w * h * BytesPerPixel(fmt),
      !.metadata = IF nmeta > 0 THEN SrcMeta ELSE NULL,
      !.metadata_bytes = nmeta ]

----------------------------------------------------------------------------
(* The allocator: malloc, realloc and free of the C library *)

FreeAddrs(h) == {a \in Arena : ~h[a].live}
LowestFree(h) == CHOOSE a \in FreeAddrs(h) : \A b \in FreeAddrs(h) : a <= b

\* The first n bytes of m, padded with indeterminate bytes.
Resized(m, n) == [i \in 1..n |-> IF i <= Len(m) THEN m[i] ELSE Indet]

\* malloc(n): the outcomes <<heap, pointer>>.  It may fail at any time.
malloc(h, n) ==
  {<<h, NULL>>}
  \cup
  (IF FreeAddrs(h) # {}
     THEN {<<[h EXCEPT ![LowestFree(h)] = Block(Fresh(n))], LowestFree(h)>>}
     ELSE {})

\* free(p); free(NULL) does nothing.
free(h, p) == IF p = NULL THEN h ELSE [h EXCEPT ![p] = FreeBlock]

\* realloc(p, n): the outcomes <<heap, pointer>>.
\*  - p = NULL: as malloc(n);
\*  - n = 0: implementation-defined: the block is freed and NULL returned, or a
\*    block of no bytes is returned;
\*  - otherwise it fails (NULL, the old block untouched), resizes in place, or
\*    moves the contents to a new block and frees the old one.
realloc(h, p, n) ==
  IF p = NULL THEN malloc(h, n)
  ELSE IF n = 0 THEN
    { <<free(h, p), NULL>>,
      <<[h EXCEPT ![p] = Block(<< >>)], p>> }
  ELSE
    { <<h, NULL>> }
    \cup
    { <<[h EXCEPT ![p] = Block(Resized(h[p].mem, n))], p>> }
    \cup
    (IF FreeAddrs(h) # {}
       THEN { <<[h EXCEPT ![LowestFree(h)] = Block(Resized(h[p].mem, n)),
                          ![p] = FreeBlock], LowestFree(h)>> }
       ELSE {})

----------------------------------------------------------------------------
(* uvc_ensure_frame_size *)

\* The outcome of a call: the frame and heap it leaves, what it returns, how
\* many times it called realloc on the frame's data, the sizes it asked of
\* uvc_ensure_frame_size, and the undefined behaviour it ran into.
Outcome(f, h, r, n, a) ==
  [frame |-> f, heap |-> h, ret |-> r, reallocs |-> n, asked |-> a, ub |-> {}]

uvc_ensure_frame_size_IgnoreOwner(frame, h, need_bytes) ==
  IF frame.data = NULL \/ frame.data_bytes # need_bytes THEN
    { Outcome([frame EXCEPT !.data_bytes = need_bytes, !.data = o[2]], o[1],
              IF o[2] = NULL THEN "UVC_ERROR_NO_MEM" ELSE "UVC_SUCCESS",
              1, {need_bytes})
      : o \in realloc(h, frame.data, need_bytes) }
  ELSE
    { Outcome(frame, h, "UVC_SUCCESS", 0, {need_bytes}) }

uvc_ensure_frame_size_GrowOnly(frame, h, need_bytes) ==
  IF frame.library_owns_data THEN
    IF frame.data = NULL \/ frame.data_bytes < need_bytes THEN
      { Outcome([frame EXCEPT !.data_bytes = need_bytes, !.data = o[2]], o[1],
                IF o[2] = NULL THEN "UVC_ERROR_NO_MEM" ELSE "UVC_SUCCESS",
                1, {need_bytes})
        : o \in realloc(h, frame.data, need_bytes) }
    ELSE
      { Outcome(frame, h, "UVC_SUCCESS", 0, {need_bytes}) }
  ELSE
    IF frame.data = NULL \/ frame.data_bytes < need_bytes
      THEN { Outcome(frame, h, "UVC_ERROR_NO_MEM", 0, {need_bytes}) }
      ELSE { Outcome(frame, h, "UVC_SUCCESS", 0, {need_bytes}) }

uvc_ensure_frame_size(frame, h, need_bytes) ==
  IF frame.library_owns_data THEN
    IF frame.data = NULL \/ frame.data_bytes # need_bytes THEN
      { Outcome([frame EXCEPT !.data_bytes = need_bytes, !.data = o[2]], o[1],
                IF o[2] = NULL THEN "UVC_ERROR_NO_MEM" ELSE "UVC_SUCCESS",
                1, {need_bytes})
        : o \in realloc(h, frame.data, need_bytes) }
    ELSE
      { Outcome(frame, h, "UVC_SUCCESS", 0, {need_bytes}) }
  ELSE
    IF frame.data = NULL \/ frame.data_bytes < need_bytes
      THEN { Outcome(frame, h, "UVC_ERROR_NO_MEM", 0, {need_bytes}) }
      ELSE { Outcome(frame, h, "UVC_SUCCESS", 0, {need_bytes}) }

----------------------------------------------------------------------------
(* Pixel kernels *)

sat_Wrapping(i) == i % 256
sat(i) == IF i >= 255 THEN 255 ELSE (IF i < 0 THEN 0 ELSE i)

\* x >> 14 on an int: an arithmetic shift, the floor of x / 2^14.
Shr14_TowardZero(x) == IF x >= 0 THEN x \div 16384 ELSE 0 - ((0 - x) \div 16384)
Shr14(x) == x \div 16384

\* The byte at (0-based) index i of a buffer; beyond its end the value is
\* indeterminate.
Rd(mem, i) == IF i < Len(mem) THEN mem[i + 1] ELSE Indet

\* The 4 bytes at pyuv[0..3].
Quad(mem, pyuv) == <<Rd(mem, pyuv), Rd(mem, pyuv + 1), Rd(mem, pyuv + 2), Rd(mem, pyuv + 3)>>

\* sat(y + t), indeterminate when an operand is.
Chan(y, t) == IF y = Indet \/ t = Indet THEN Indet ELSE sat(y + t)

RTerm(v) == IF v = Indet THEN Indet ELSE Shr14(22987 * (v - 128))
GTerm(u, v) ==
  IF u = Indet \/ v = Indet THEN Indet
  ELSE Shr14((0 - 5636) * (u - 128) - 11698 * (v - 128))
BTerm(u) == IF u = Indet THEN Indet ELSE Shr14(29049 * (u - 128))

\* q = <<pyuv[0], pyuv[1], pyuv[2], pyuv[3]>>; the result is prgb[0..5].
IYUYV2RGB_2(q) ==
  LET r == RTerm(q[4])
      g == GTerm(q[2], q[4])
      b == BTerm(q[2])
  IN <<Chan(q[1], r), Chan(q[1], g), Chan(q[1], b),
       Chan(q[3], r), Chan(q[3], g), Chan(q[3], b)>>

IYUYV2BGR_2(q) ==
  LET r == RTerm(q[4])
      g == GTerm(q[2], q[4])
      b == BTerm(q[2])
  IN <<Chan(q[1], b), Chan(q[1], g), Chan(q[1], r),
       Chan(q[3], b), Chan(q[3], g), Chan(q[3], r)>>

IUYVY2RGB_2(q) ==
  LET r == RTerm(q[3])
      g == GTerm(q[1], q[3])
      b == BTerm(q[1])
  IN <<Chan(q[2], r), Chan(q[2], g), Chan(q[2], b),
       Chan(q[4], r), Chan(q[4], g), Chan(q[4], b)>>

IUYVY2BGR_2(q) ==
  LET r == RTerm(q[3])
      g == GTerm(q[1], q[3])
      b == BTerm(q[1])
  IN <<Chan(q[2], b), Chan(q[2], g), Chan(q[2], r),
       Chan(q[4], b), Chan(q[4], g), Chan(q[4], r)>>

IYUYV2RGB_4(mem, pyuv) == IYUYV2RGB_2(Quad(mem, pyuv)) \o IYUYV2RGB_2(Quad(mem, pyuv + 4))
IYUYV2RGB_8(mem, pyuv) == IYUYV2RGB_4(mem, pyuv) \o IYUYV2RGB_4(mem, pyuv + 8)

IUYVY2RGB_4(mem, pyuv) == IUYVY2RGB_2(Quad(mem, pyuv)) \o IUYVY2RGB_2(Quad(mem, pyuv + 4))
IUYVY2RGB_8(mem, pyuv) == IUYVY2RGB_4(mem, pyuv) \o IUYVY2RGB_4(mem, pyuv + 8)

IUYVY2BGR_4(mem, pyuv) == IUYVY2BGR_2(Quad(mem, pyuv)) \o IUYVY2BGR_2(Quad(mem, pyuv + 4))
IUYVY2BGR_8(mem, pyuv) == IUYVY2BGR_4(mem, pyuv) \o IUYVY2BGR_4(mem, pyuv + 8)

IYUYV2Y_Chroma(mem, pyuv) == <<Rd(mem, pyuv + 1)>>
IYUYV2Y(mem, pyuv) == <<Rd(mem, pyuv)>>
IYUYV2UV_GroupU(mem, pyuv) == <<Rd(mem, 4 * (pyuv \div 4) + 1)>>
IYUYV2UV(mem, pyuv) == <<Rd(mem, pyuv + 1)>>

\* What one turn of a kernel's loop stores at the destination pointer.
LoopBody(k, mem, pyuv) ==
  CASE k = "yuyv2rgb" -> IYUYV2RGB_8(mem, pyuv)
    [] k = "uyvy2rgb" -> IUYVY2RGB_8(mem, pyuv)
    [] k = "uyvy2bgr" -> IUYVY2BGR_8(mem, pyuv)
    [] k = "yuyv2y" -> IYUYV2Y(mem, pyuv)
    [] k = "yuyv2uv" -> IYUYV2UV(mem, pyuv)

\* How far one turn advances the destination and the source pointer.
DstStride(k) == IF k \in {"yuyv2y", "yuyv2uv"} THEN 1 ELSE 3 * 8
SrcStride(k) == IF k \in {"yuyv2y", "yuyv2uv"} THEN 2 ELSE 2 * 8

\* The bytes a turn reads, counted from the source pointer.
ReadSpan(k) == CASE k = "yuyv2y" -> 1 [] k = "yuyv2uv" -> 2 [] OTHER -> 2 * 8

\* dst with bytes stored at (0-based) offset off; what falls beyond the end of
\* the block is not stored in it.
Store(dst, off, bytes) ==
  [i \in 1..Len(dst) |->
     IF i - 1 >= off /\ i - 1 < off + Len(bytes) THEN bytes[i - off] ELSE dst[i]]

\* while (p < p_end) { body; p += DstStride; pyuv += SrcStride; }
RECURSIVE PixelLoop(_, _, _, _, _, _)
PixelLoop(k, src, dst, p, p_end, pyuv) ==
  IF p < p_end
    THEN PixelLoop(k, src, Store(dst, p, LoopBody(k, src, pyuv)),
                   p + DstStride(k), p_end, pyuv + SrcStride(k))
    ELSE dst

\* The turns the loop takes for a destination of p_end bytes.
Turns(k, p_end) == (p_end + DstStride(k) - 1) \div DstStride(k)

\* The undefined behaviour of the loop: reads beyond the source block, stores
\* beyond the destination block.
LoopUB(k, src, dst, p_end) ==
  LET n == Turns(k, p_end) IN
  (IF n > 0 /\ (n - 1) * SrcStride(k) + ReadSpan(k) > Len(src) THEN {"oob_read"} ELSE {})
  \cup
  (IF n * DstStride(k) > Len(dst) THEN {"oob_write"} ELSE {})

CopyGeometry_NoTiming(inF, outF, fmt, step) ==
  [outF EXCEPT !.width = inF.width, !.height = inF.height,
               !.frame_format = fmt, !.step = step,
               !.source = inF.source]

\* The fields every kernel and the duplicator copy from the source.
CopyGeometry(inF, outF, fmt, step) ==
  [outF EXCEPT !.width = inF.width, !.height = inF.height,
               !.frame_format = fmt, !.step = step,
               !.sequence = inF.sequence,
               !.capture_time = inF.capture_time,
               !.capture_time_finished = inF.capture_time_finished,
               !.source = inF.source]

\* The pixel loop of kernel k run on the outcome e of a successful
\* uvc_ensure_frame_size, the destination's fields already set.  An access
\* out of bounds either ends the process or goes unnoticed.
RunLoop(k, inF, e) ==
  LET src == e.heap[inF.data].mem
      dst == e.heap[e.frame.data].mem
      u == LoopUB(k, src, dst, e.frame.data_bytes)
      done == [e EXCEPT !.heap[e.frame.data].mem =
                            PixelLoop(k, src, dst, 0, e.frame.data_bytes, 0),
                        !.ub = u]
  IN IF u = {} THEN {done} ELSE {done, [done EXCEPT !.ret = "CRASH"]}

Kernel_EnsureFirst(k, srcfmt, dstfmt, bpp, inF, outF, h) ==
  UNION {
    IF e.ret # "UVC_SUCCESS"
      THEN { [e EXCEPT !.ret = "UVC_ERROR_NO_MEM"] }
      ELSE IF inF.frame_format # srcfmt
        THEN { [e EXCEPT !.ret = "UVC_ERROR_INVALID_PARAM"] }
        ELSE LET set == [e EXCEPT !.frame =
                           CopyGeometry(inF, e.frame, dstfmt, inF.width * bpp)]
             IN IF k = "none" THEN {set} ELSE RunLoop(k, inF, set)
    : e \in uvc_ensure_frame_size(outF, h, inF.width * inF.height * bpp) }

\* The common shape of the kernels: format check, uvc_ensure_frame_size,
\* the destination's fields, the loop (a kernel of no loop has k = "none").
\* The sizes are uint32_t products; within the model's bounds none wraps.
Kernel(k, srcfmt, dstfmt, bpp, inF, outF, h) ==
  IF inF.frame_format # srcfmt
    THEN { Outcome(outF, h, "UVC_ERROR_INVALID_PARAM", 0, {}) }
    ELSE UNION {
      IF e.ret # "UVC_SUCCESS"
        THEN { [e EXCEPT !.ret = "UVC_ERROR_NO_MEM"] }
        ELSE LET set == [e EXCEPT !.frame =
                           CopyGeometry(inF, e.frame, dstfmt, inF.width * bpp)]
             IN IF k = "none" THEN {set} ELSE RunLoop(k, inF, set)
      : e \in uvc_ensure_frame_size(outF, h, inF.width * inF.height * bpp) }

uvc_yuyv2rgb(inF, outF, h) == Kernel("yuyv2rgb", "YUYV", "RGB", 3, inF, outF, h)
uvc_yuyv2bgr(inF, outF, h) == Kernel("none", "YUYV", "BGR", 3, inF, outF, h)
uvc_yuyv2y(inF, outF, h) == Kernel("yuyv2y", "YUYV", "GRAY8", 1, inF, outF, h)
uvc_yuyv2uv(inF, outF, h) == Kernel("yuyv2uv", "YUYV", "GRAY8", 1, inF, outF, h)
uvc_uyvy2rgb(inF, outF, h) == Kernel("uyvy2rgb", "UYVY", "RGB", 3, inF, outF, h)
uvc_uyvy2bgr(inF, outF, h) == Kernel("uyvy2bgr", "UYVY", "BGR", 3, inF, outF, h)

----------------------------------------------------------------------------
(* uvc_duplicate_frame *)

\* memcpy(dst, src, n) on block contents.
memcpy(dst, src, n) == [i \in 1..Len(dst) |-> IF i <= n THEN Rd(src, i - 1) ELSE dst[i]]

\* The metadata part of uvc_duplicate_frame, run on the outcome e of the data
\* part.  memcpy into a NULL out->metadata ends the process.
DuplicateMetadata(inF, e) ==
  IF inF.metadata # NULL /\ inF.metadata_bytes > 0 THEN
    LET grown ==
          IF e.frame.metadata_bytes < inF.metadata_bytes
            THEN { [e EXCEPT !.heap = o[1], !.frame.metadata = o[2]]
                   : o \in realloc(e.heap, e.frame.metadata, inF.metadata_bytes) }
            ELSE { e }
    IN { IF g.frame.metadata = NULL
           THEN [g EXCEPT !.frame.metadata_bytes = inF.metadata_bytes,
                          !.ub = {"null_write"}, !.ret = "CRASH"]
           ELSE [g EXCEPT !.frame.metadata_bytes = inF.metadata_bytes,
                          !.heap[g.frame.metadata].mem =
                             memcpy(g.heap[g.frame.metadata].mem,
                                    g.heap[inF.metadata].mem, inF.metadata_bytes)]
         : g \in grown }
  ELSE { e }

uvc_duplicate_frame_IntoSource(inF, outF, h) ==
  UNION {
    IF e.ret # "UVC_SUCCESS"
      THEN { [e EXCEPT !.ret = "UVC_ERROR_NO_MEM"] }
      ELSE LET set == [e EXCEPT !.frame =
                         CopyGeometry(inF, e.frame, inF.frame_format, inF.step)]
               copied == [set EXCEPT !.heap[inF.data].mem =
                            memcpy(set.heap[inF.data].mem,
                                   set.heap[set.frame.data].mem, inF.data_bytes)]
           IN DuplicateMetadata(inF, copied)
    : e \in uvc_ensure_frame_size(outF, h, inF.data_bytes) }

uvc_duplicate_frame_PixelCount(inF, outF, h) ==
  UNION {
    IF e.ret # "UVC_SUCCESS"
      THEN { [e EXCEPT !.ret = "UVC_ERROR_NO_MEM"] }
      ELSE LET set == [e EXCEPT !.frame =
                         CopyGeometry(inF, e.frame, inF.frame_format, inF.step)]
               copied == [set EXCEPT !.heap[set.frame.data].mem =
                            memcpy(set.heap[set.frame.data].mem,
                                   set.heap[inF.data].mem, inF.width * inF.height)]
           IN DuplicateMetadata(inF, copied)
    : e \in uvc_ensure_frame_size(outF, h, inF.data_bytes) }

uvc_duplicate_frame(inF, outF, h) ==
  UNION {
    IF e.ret # "UVC_SUCCESS"
      THEN { [e EXCEPT !.ret = "UVC_ERROR_NO_MEM"] }
      ELSE LET set == [e EXCEPT !.frame =
                         CopyGeometry(inF, e.frame, inF.frame_format, inF.step)]
               copied == [set EXCEPT !.heap[set.frame.data].mem =
                            memcpy(set.heap[set.frame.data].mem,
                                   set.heap[inF.data].mem, inF.data_bytes)]
           IN DuplicateMetadata(inF, copied)
    : e \in uvc_ensure_frame_size(outF, h, inF.data_bytes) }

----------------------------------------------------------------------------
(* The routers *)

uvc_any2rgb_AcceptsBgr(inF, outF, h) ==
  CASE inF.frame_format = "YUYV" -> uvc_yuyv2rgb(inF, outF, h)
    [] inF.frame_format = "UYVY" -> uvc_uyvy2rgb(inF, outF, h)
    [] inF.frame_format \in {"RGB", "BGR"} -> uvc_duplicate_frame(inF, outF, h)
    [] OTHER -> { Outcome(outF, h, "UVC_ERROR_NOT_SUPPORTED", 0, {}) }

uvc_any2rgb(inF, outF, h) ==
  CASE inF.frame_format = "YUYV" -> uvc_yuyv2rgb(inF, outF, h)
    [] inF.frame_format = "UYVY" -> uvc_uyvy2rgb(inF, outF, h)
    [] inF.frame_format = "RGB" -> uvc_duplicate_frame(inF, outF, h)
    [] OTHER -> { Outcome(outF, h, "UVC_ERROR_NOT_SUPPORTED", 0, {}) }

uvc_any2bgr(inF, outF, h) ==
  CASE inF.frame_format = "YUYV" -> uvc_yuyv2bgr(inF, outF, h)
    [] inF.frame_format = "UYVY" -> uvc_uyvy2bgr(inF, outF, h)
    [] inF.frame_format = "BGR" -> uvc_duplicate_frame(inF, outF, h)
    [] OTHER -> { Outcome(outF, h, "UVC_ERROR_NOT_SUPPORTED", 0, {}) }

----------------------------------------------------------------------------
(* uvc_allocate_frame, uvc_free_frame *)

\* The outcomes <<frame allocated, frame, heap>>.  The control structure
\* itself is not a block of the modelled heap.
uvc_allocate_frame_KeepsFrame(h, data_bytes) ==
  { <<FALSE, ZeroFrame, h>> }
  \cup
  (IF data_bytes > 0
     THEN { <<TRUE, [ZeroFrame EXCEPT !.library_owns_data = TRUE,
                                     !.data_bytes = data_bytes,
                                     !.data = o[2]], o[1]>>
            : o \in malloc(h, data_bytes) }
     ELSE { <<TRUE, [ZeroFrame EXCEPT !.library_owns_data = TRUE], h>> })

uvc_allocate_frame(h, data_bytes) ==
  { <<FALSE, ZeroFrame, h>> }
  \cup
  (IF data_bytes > 0
     THEN { IF o[2] = NULL
              THEN <<FALSE, ZeroFrame, o[1]>>
              ELSE <<TRUE, [ZeroFrame EXCEPT !.library_owns_data = TRUE,
                                             !.data_bytes = data_bytes,
                                             !.data = o[2]], o[1]>>
            : o \in malloc(h, data_bytes) }
     ELSE { <<TRUE, [ZeroFrame EXCEPT !.library_owns_data = TRUE], h>> })

uvc_free_frame_IgnoreOwner(frame, h) ==
  LET h1 == IF frame.data_bytes > 0 THEN free(h, frame.data) ELSE h
      h2 == IF frame.metadata_bytes > 0 THEN free(h1, frame.metadata) ELSE h1
  IN IF frame.time_stamp # NULL THEN free(h2, frame.time_stamp) ELSE h2

\* The heap after uvc_free_frame(frame).
uvc_free_frame(frame, h) ==
  IF frame.library_owns_data
    THEN LET h1 == IF frame.data_bytes > 0 THEN free(h, frame.data) ELSE h
             h2 == IF frame.metadata_bytes > 0 THEN free(h1, frame.metadata) ELSE h1
         IN IF frame.time_stamp # NULL THEN free(h2, frame.time_stamp) ELSE h2
    ELSE h

----------------------------------------------------------------------------
(* The frames the transport delivers *)

PixelFormats == {"YUYV", "UYVY", "RGB", "BGR"}

\* A delivered frame is a format, a width, a number of rows and a variant v:
\* its sequence number is v, its payload pattern v - 1, and the even variants
\* carry v + 1 bytes of metadata.
SourceSpace == [fmt : Formats, w : Widths, h : 1..MaxHeight, v : Variants]

\* The frames delivered while the destination's life cycle is explored: YUYV
\* and RGB frames of every height, one UYVY, one BGR and one MJPEG frame, the
\* variant alternating with the height.
Sources ==
  { s \in SourceSpace :
      /\ s.w = 8
      /\ s.fmt \in {"YUYV", "UYVY", "RGB", "BGR", "MJPEG"}
      /\ s.fmt \notin {"YUYV", "RGB"} => s.h = 1
      /\ s.v = IF s.fmt \in {"UYVY", "RGB"} THEN 1 + (s.h % 2) ELSE 2 - (s.h % 2) }

MetaBytes(s) == IF s.v % 2 = 0 THEN s.v + 1 ELSE 0

FrameOf(s) == SourceFrame(s.fmt, s.w, s.h, s.v, MetaBytes(s))

MetaPayload(s) == [i \in 1..MetaBytes(s) |-> 16 * s.v + i]

\* The heap with the transport's buffers holding the delivered frame s.
Delivered(h, s) ==
  [h EXCEPT ![SrcData] = Block(Payload(s.v - 1, FrameOf(s).data_bytes)),
            ![SrcMeta] = Block(MetaPayload(s))]

----------------------------------------------------------------------------
(* The state machine *)

\* The capture callback before its first invocation.
CbInit ==
  [ prog |-> "none",          \* the program the callback belongs to
    pc |-> "idle",            \* where the callback stands
    calls |-> 0,              \* invocations so far
    error_code |-> FALSE,     \* frame->error_code != PAYLOAD_ERROR_NONE
    payload_error |-> FALSE,  \* the same, as the frame was delivered
    jpeg_count |-> 0,         \* static int jpeg_count
    files |-> << >>,          \* the files opened for writing, in order
    made |-> 0,               \* files opened by this invocation
    allocated |-> FALSE,      \* this invocation obtained the bgr frame
    frees |-> 0,              \* uvc_free_frame(bgr) calls of this invocation
    stale |-> FALSE,          \* bgr was used after its release
    denied |-> FALSE,         \* malloc or fopen failed in this invocation
    failed |-> FALSE,         \* uvc_any2bgr failed in this invocation
    fails |-> 0 ]             \* invocations in which uvc_any2bgr failed

Init ==
  /\ in = ZeroFrame
  /\ out = ZeroFrame
  /\ outLive = FALSE
  /\ heap = [a \in Addr |-> IF a \in Arena THEN FreeBlock ELSE Block(<< >>)]
  /\ op = "none"
  /\ ret = "NONE"
  /\ reallocs = 0
  /\ asked = {}
  /\ ub = {}
  /\ cb = CbInit

\* After a call that failed the caller releases the frame, as the capture
\* callback does; a call that did not return ends the run.
Failure == {"UVC_ERROR_NO_MEM", "UVC_ERROR_INVALID_PARAM", "UVC_ERROR_NOT_SUPPORTED"}
Usable == outLive /\ ret \notin Failure \cup {"CRASH"}

\* A run follows one destination frame from its creation to its release.
\* The caller allocates the destination frame.
AllocateFrame ==
  /\ op = "none"
  /\ \E n \in EnsureSizes :
       \E o \in uvc_allocate_frame(heap, n) :
         /\ asked' = {n}
         /\ outLive' = o[1]
         /\ out' = o[2]
         /\ heap' = o[3]
         /\ ret' = IF o[1] THEN "FRAME" ELSE "NULL"
  /\ op' = "uvc_allocate_frame"
  /\ reallocs' = 0
  /\ ub' = {}
  /\ UNCHANGED <<in, cb>>

\* The caller builds a destination frame around a buffer of its own.
BorrowFrame ==
  /\ op = "none"
  /\ \E cap \in BorrowCaps :
       /\ out' = [ZeroFrame EXCEPT !.data = IF cap = 0 THEN NULL ELSE CallerBuf,
                                   !.data_bytes = cap]
       /\ heap' = [heap EXCEPT ![CallerBuf] = Block([i \in 1..cap |-> 170])]
  /\ outLive' = TRUE
  /\ op' = "borrow"
  /\ ret' = "FRAME"
  /\ reallocs' = 0
  /\ asked' = {}
  /\ ub' = {}
  /\ UNCHANGED <<in, cb>>

FreeFrame ==
  /\ outLive /\ ret # "CRASH"
  /\ heap' = uvc_free_frame(out, heap)
  /\ out' = ZeroFrame
  /\ outLive' = FALSE
  /\ op' = "uvc_free_frame"
  /\ ret' = "NONE"
  /\ reallocs' = 0
  /\ asked' = {}
  /\ ub' = {}
  /\ UNCHANGED <<in, cb>>

\* The contents of a block that no pointer of the frame refers to can never be
\* read again: the block stays allocated, its contents are not kept.
Unreachable(h, f) ==
  { a \in Arena : h[a].live /\ a \notin {f.data, f.metadata, f.time_stamp} }
Forget(h, f) ==
  [a \in Addr |-> IF a \in Unreachable(h, f) THEN Block(<< >>) ELSE h[a]]

\* The state after a call that left outcome o.
Return(name, o) ==
  /\ out' = o.frame
  /\ heap' = Forget(o.heap, o.frame)
  /\ ret' = o.ret
  /\ reallocs' = o.reallocs
  /\ asked' = o.asked
  /\ ub' = o.ub
  /\ op' = name
  /\ UNCHANGED <<outLive, cb>>

EnsureFrameSize ==
  /\ Usable
  /\ \E n \in EnsureSizes :
       \E o \in uvc_ensure_frame_size(out, heap, n) : Return("uvc_ensure_frame_size", o)
  /\ UNCHANGED <<in, cb>>

\* The function of frame.c that name names, applied.
Apply(name, inF, outF, h) ==
  CASE name = "uvc_duplicate_frame" -> uvc_duplicate_frame(inF, outF, h)
    [] name = "uvc_yuyv2rgb" -> uvc_yuyv2rgb(inF, outF, h)
    [] name = "uvc_yuyv2bgr" -> uvc_yuyv2bgr(inF, outF, h)
    [] name = "uvc_yuyv2y" -> uvc_yuyv2y(inF, outF, h)
    [] name = "uvc_yuyv2uv" -> uvc_yuyv2uv(inF, outF, h)
    [] name = "uvc_uyvy2rgb" -> uvc_uyvy2rgb(inF, outF, h)
    [] name = "uvc_uyvy2bgr" -> uvc_uyvy2bgr(inF, outF, h)
    [] name = "uvc_any2rgb" -> uvc_any2rgb(inF, outF, h)
    [] name = "uvc_any2bgr" -> uvc_any2bgr(inF, outF, h)

\* The transport delivers a frame s of S and the caller passes it with the
\* destination frame to the conversion or the duplicator that name names.
Call(name, S) ==
  \E s \in S :
       /\ in' = FrameOf(s)
       /\ \E o \in Apply(name, FrameOf(s), out, Delivered(heap, s)) : Return(name, o)

DuplicateFrame == Usable /\ Call("uvc_duplicate_frame", Sources)
Yuyv2Rgb == Usable /\ Call("uvc_yuyv2rgb", Sources)
Yuyv2Bgr == Usable /\ Call("uvc_yuyv2bgr", Sources)
Yuyv2Y == Usable /\ Call("uvc_yuyv2y", Sources)
Yuyv2Uv == Usable /\ Call("uvc_yuyv2uv", Sources)
Uyvy2Rgb == Usable /\ Call("uvc_uyvy2rgb", Sources)
Uyvy2Bgr == Usable /\ Call("uvc_uyvy2bgr", Sources)
Any2Rgb == Usable /\ Call("uvc_any2rgb", Sources)
Any2Bgr == Usable /\ Call("uvc_any2bgr", Sources)

Next ==
  \/ AllocateFrame
  \/ BorrowFrame
  \/ FreeFrame
  \/ EnsureFrameSize
  \/ DuplicateFrame
  \/ Yuyv2Rgb
  \/ Yuyv2Bgr
  \/ Yuyv2Y
  \/ Yuyv2Uv
  \/ Uyvy2Rgb
  \/ Uyvy2Bgr
  \/ Any2Rgb
  \/ Any2Bgr

Spec == Init /\ [][Next]_vars

----------------------------------------------------------------------------
(* The pixel kernels on frames of varied payload *)

MaxPattern == 3      \* payload patterns 0..MaxPattern of the frames below

\* YUYV and UYVY frames of every height and payload pattern; the narrow ones
\* carry the gray pattern only.
PixelSources ==
  { s \in [fmt : {"YUYV", "UYVY"}, w : Widths, h : 1..MaxHeight,
           v : 1..(MaxPattern + 1)] : s.w = 4 => s.v = 1 }

PixYuyv2Rgb == Usable /\ Call("uvc_yuyv2rgb", PixelSources)
PixYuyv2Bgr == Usable /\ Call("uvc_yuyv2bgr", PixelSources)
PixUyvy2Rgb == Usable /\ Call("uvc_uyvy2rgb", PixelSources)
PixUyvy2Bgr == Usable /\ Call("uvc_uyvy2bgr", PixelSources)

NextPixel ==
  \/ AllocateFrame
  \/ FreeFrame
  \/ PixYuyv2Rgb
  \/ PixYuyv2Bgr
  \/ PixUyvy2Rgb
  \/ PixUyvy2Bgr

SpecPixel == Init /\ [][NextPixel]_vars

----------------------------------------------------------------------------
(* The luma and chroma planes of YUYV frames of varied payload *)

PlaneYuyv2Y == Usable /\ Call("uvc_yuyv2y", PixelSources)
PlaneYuyv2Uv == Usable /\ Call("uvc_yuyv2uv", PixelSources)

NextPlane ==
  \/ AllocateFrame
  \/ FreeFrame
  \/ PlaneYuyv2Y
  \/ PlaneYuyv2Uv

SpecPlane == Init /\ [][NextPlane]_vars

----------------------------------------------------------------------------
(* The routers on frames of every format *)

RouterFormats ==
  {"YUYV", "UYVY", "RGB", "BGR", "MJPEG", "GRAY8", "GRAY16", "H264", "BY8", "NV12"}

\* One frame of each format, eight pixels wide; the UYVY and the RGB frame
\* carry metadata.
RouterSources ==
  { s \in [fmt : RouterFormats, w : {8}, h : 1..MaxHeight, v : Variants] :
      s.v = IF s.fmt \in {"UYVY", "RGB"} THEN 2 ELSE 1 }

RouteAny2Rgb == Usable /\ Call("uvc_any2rgb", RouterSources)
RouteAny2Bgr == Usable /\ Call("uvc_any2bgr", RouterSources)

NextRouter ==
  \/ AllocateFrame
  \/ BorrowFrame
  \/ FreeFrame
  \/ RouteAny2Rgb
  \/ RouteAny2Bgr

SpecRouter == Init /\ [][NextRouter]_vars

----------------------------------------------------------------------------
(* The capture callback cb of example.c and of part_000 *)

MaxFrames == 3       \* invocations of the callback in a run

Programs == {"example", "part_000"}

\* The frames the transport hands the callback.
CbSources ==
  [fmt : {"YUYV", "MJPEG", "H264", "UYVY"}, w : {8}, h : 1..MaxHeight, v : {1}]

\* for (i = 0; i < width * height * 3; i += 3) swap data[i] and data[i + 2]
bgr_to_rgb(data, width, height) ==
  [i \in 1..Len(data) |->
     IF i - 1 < width * height * 3 /\ (i - 1) % 3 = 0 /\ i + 2 <= Len(data)
       THEN data[i + 2]
     ELSE IF i - 3 < width * height * 3 /\ (i - 1) % 3 = 2
       THEN data[i - 2]
     ELSE data[i]]

\* save_bgr_to_jpeg: the outcomes <<file opened, process goes on>>.  fopen may
\* fail, and then nothing is written.  The compressor is libjpeg's, with its
\* standard error manager, and its code is not part of the repository: handed
\* an image of no pixels it either returns or ends the process.
save_bgr_to_jpeg(width, height) ==
  { <<FALSE, TRUE>>, <<TRUE, TRUE>> }
  \cup (IF width * height = 0 THEN { <<TRUE, FALSE>> } ELSE {})

\* The file frame_<n>.jpeg, opened for writing.
FileOf(n, kind, bytes) == [n |-> n, kind |-> kind, bytes |-> bytes]

\* Whether the callback of program prog converts the frame.
CbConverts(c, inF) ==
  IF c.prog = "example"
    THEN c.error_code /\ inF.frame_format \in {"MJPEG", "YUYV"}
    ELSE inF.frame_format = "YUYV"

\* The switch on frame->frame_format, left without the release of bgr on the
\* failure path.
cb_switch_NoRelease(c, inF, bgr, live, h) ==
  IF ~CbConverts(c, inF)
    THEN { [cb |-> [c EXCEPT !.pc = "save"], frame |-> bgr, live |-> live,
            heap |-> h, ret |-> "NONE", ub |-> {}] }
    ELSE
      { IF o.ret = "CRASH"
          THEN [cb |-> [c EXCEPT !.pc = "exit", !.stale = @ \/ ~live],
                frame |-> o.frame, live |-> live, heap |-> o.heap,
                ret |-> o.ret, ub |-> o.ub]
        ELSE IF o.ret # "UVC_SUCCESS"
          THEN [cb |-> [c EXCEPT !.pc = "idle", !.failed = TRUE, !.fails = @ + 1,
                                 !.stale = @ \/ ~live],
                frame |-> o.frame, live |-> live, heap |-> o.heap,
                ret |-> o.ret, ub |-> o.ub]
        ELSE [cb |-> [c EXCEPT !.pc = "save", !.stale = @ \/ ~live],
              frame |-> o.frame, live |-> live,
              heap |-> [o.heap EXCEPT ![o.frame.data].mem =
                          bgr_to_rgb(@, o.frame.width, o.frame.height)],
              ret |-> o.ret, ub |-> o.ub]
        : o \in uvc_any2bgr(inF, bgr, h) }

\* The switch on frame->frame_format (in example.c under the test of
\* frame->error_code, and with MJPEG falling through to YUYV): the frame is
\* converted by uvc_any2bgr and its channels swapped; if the conversion fails
\* bgr is released and the callback returns.
cb_switch(c, inF, bgr, live, h) ==
  IF ~CbConverts(c, inF)
    THEN { [cb |-> [c EXCEPT !.pc = "save"], frame |-> bgr, live |-> live,
            heap |-> h, ret |-> "NONE", ub |-> {}] }
    ELSE
      { IF o.ret = "CRASH"
          THEN [cb |-> [c EXCEPT !.pc = "exit", !.stale = @ \/ ~live],
                frame |-> o.frame, live |-> live, heap |-> o.heap,
                ret |-> o.ret, ub |-> o.ub]
        ELSE IF o.ret # "UVC_SUCCESS"
          THEN [cb |-> [c EXCEPT !.pc = "idle", !.failed = TRUE, !.fails = @ + 1,
                                 !.frees = @ + 1, !.stale = @ \/ ~live],
                frame |-> ZeroFrame, live |-> FALSE,
                heap |-> Forget(uvc_free_frame(o.frame, o.heap), ZeroFrame),
                ret |-> o.ret, ub |-> o.ub]
        ELSE [cb |-> [c EXCEPT !.pc = "save", !.stale = @ \/ ~live],
              frame |-> o.frame, live |-> live,
              heap |-> [o.heap EXCEPT ![o.frame.data].mem =
                          bgr_to_rgb(@, o.frame.width, o.frame.height)],
              ret |-> o.ret, ub |-> o.ub]
        : o \in uvc_any2bgr(inF, bgr, h) }

\* The block that saves the frame.
\*  - example.c: only a frame with a payload error is saved: the bytes of an
\*    MJPEG frame as they are, a YUYV frame through save_bgr_to_jpeg, a frame
\*    of another format not at all; jpeg_count is incremented in all three
\*    cases.
\*  - part_000: every frame goes through save_bgr_to_jpeg, under the name
\*    numbered jpeg_count++.
cb_save(c, inF, bgr, live, h) ==
  LET name == c.jpeg_count
      image == IF live /\ bgr.data # NULL
                 THEN SubSeq(h[bgr.data].mem, 1, bgr.width * bgr.height * 3)
                 ELSE << >>
      jpeg(d) ==
        { [d EXCEPT !.pc = IF o[2] THEN "release" ELSE "exit",
                    !.files = IF o[1] THEN Append(@, FileOf(name, "jpeg", image))
                                      ELSE @,
                    !.made = IF o[1] THEN @ + 1 ELSE @,
                    !.denied = @ \/ ~o[1],
                    !.stale = @ \/ ~live]
          : o \in save_bgr_to_jpeg(bgr.width, bgr.height) }
      counted == [c EXCEPT !.jpeg_count = @ + 1]
  IN IF c.prog = "example"
       THEN IF ~c.error_code THEN { [c EXCEPT !.pc = "release"] }
            ELSE IF inF.frame_format = "MJPEG"
              THEN { [counted EXCEPT !.pc = "release",
                                     !.files = Append(@, FileOf(name, "raw",
                                                      h[inF.data].mem)),
                                     !.made = @ + 1],
                     [counted EXCEPT !.pc = "release", !.denied = TRUE] }
            ELSE IF inF.frame_format = "YUYV" THEN jpeg(counted)
            ELSE { [counted EXCEPT !.pc = "release"] }
       ELSE jpeg(counted)

\* cb is called with a frame: bgr = uvc_allocate_frame(width * height * 3),
\* and the callback returns if there is none.
CbEnter ==
  /\ cb.pc = "idle" /\ cb.calls < MaxFrames /\ ~outLive
  /\ \E prog \in (IF cb.prog = "none" THEN Programs ELSE {cb.prog}),
        s \in CbSources, e \in BOOLEAN :
       LET f == FrameOf(s)
           n == f.width * f.height * 3
       IN \E a \in uvc_allocate_frame(Delivered(heap, s), n) :
            /\ in' = f
            /\ outLive' = a[1]
            /\ out' = a[2]
            /\ heap' = a[3]
            /\ asked' = {n}
            /\ ret' = IF a[1] THEN "FRAME" ELSE "NULL"
            /\ cb' = [cb EXCEPT !.prog = prog, !.calls = @ + 1,
                                !.pc = IF a[1] THEN "switch" ELSE "idle",
                                !.error_code = e, !.payload_error = e,
                                !.made = 0, !.frees = 0,
                                !.allocated = a[1], !.denied = ~a[1],
                                !.failed = FALSE]
  /\ op' = "cb"
  /\ reallocs' = 0
  /\ ub' = {}

CbSwitch ==
  /\ cb.pc = "switch"
  /\ \E o \in cb_switch(cb, in, out, outLive, heap) :
       /\ cb' = o.cb
       /\ out' = o.frame
       /\ outLive' = o.live
       /\ heap' = o.heap
       /\ ret' = o.ret
       /\ ub' = o.ub
  /\ op' = "cb"
  /\ UNCHANGED <<in, reallocs, asked>>

CbSave ==
  /\ cb.pc = "save"
  /\ \E c \in cb_save(cb, in, out, outLive, heap) : cb' = c
  /\ op' = "cb"
  /\ UNCHANGED <<in, out, outLive, heap, ret, reallocs, asked, ub>>

\* The end of the callback: example.c clears frame->error_code; both release
\* bgr and return.
CbRelease ==
  /\ cb.pc = "release"
  /\ cb' = [cb EXCEPT !.pc = "idle", !.frees = @ + 1,
                      !.stale = @ \/ ~outLive,
                      !.error_code = IF cb.prog = "example" THEN FALSE ELSE @]
  /\ heap' = Forget(uvc_free_frame(out, heap), ZeroFrame)
  /\ out' = ZeroFrame
  /\ outLive' = FALSE
  /\ op' = "cb"
  /\ UNCHANGED <<in, ret, reallocs, asked, ub>>

NextCb ==
  \/ CbEnter
  \/ CbSwitch
  \/ CbSave
  \/ CbRelease

SpecCb == Init /\ [][NextCb]_vars

----------------------------------------------------------------------------
(* The pixels of the last delivered frame and of the destination *)

Pixels == in.width * in.height
SrcByte(i) == heap[SrcData].mem[i + 1]
OutByte(i) == heap[out.data].mem[i + 1]

\* Luma and chroma of pixel p: two pixels share a four-byte group, Y0 U Y1 V
\* in YUYV and U Y0 V Y1 in UYVY.
LumaOf(p) == IF in.frame_format = "YUYV" THEN SrcByte(2 * p) ELSE SrcByte(2 * p + 1)
ChromaU(p) ==
  IF in.frame_format = "YUYV" THEN SrcByte(4 * (p \div 2) + 1) ELSE SrcByte(4 * (p \div 2))
ChromaV(p) ==
  IF in.frame_format = "YUYV" THEN SrcByte(4 * (p \div 2) + 3)
                              ELSE SrcByte(4 * (p \div 2) + 2)

\* x / 2^14 rounded toward minus infinity, and the clamp to a byte.
Floor14(x) == IF x >= 0 THEN x \div 16384 ELSE 0 - ((16383 - x) \div 16384)
Clamp(x) == IF x > 255 THEN 255 ELSE IF x < 0 THEN 0 ELSE x

\* The channels of pixel p before clamping.
RedOf(p) == LumaOf(p) + Floor14(22987 * (ChromaV(p) - 128))
GreenOf(p) ==
  LumaOf(p) + Floor14((0 - 5636) * (ChromaU(p) - 128) - 11698 * (ChromaV(p) - 128))
BlueOf(p) == LumaOf(p) + Floor14(29049 * (ChromaU(p) - 128))

OutPixel(p) == <<OutByte(3 * p), OutByte(3 * p + 1), OutByte(3 * p + 2)>>

----------------------------------------------------------------------------
(* Pixel values *)

\* C1: after a successful uvc_yuyv2rgb or uvc_uyvy2rgb on a frame whose pixel
\* count is a multiple of 8, the destination holds w*h pixels of three bytes,
\* and pixel p is (sat(Y + r), sat(Y + g), sat(Y + b)) for its own luma Y and
\* the U and V of its four-byte group, r = (22987*(V-128)) >> 14,
\* g = (-5636*(U-128) - 11698*(V-128)) >> 14, b = (29049*(U-128)) >> 14, the
\* shift rounding toward minus infinity.
C1_RgbPixels ==
  (op \in {"uvc_yuyv2rgb", "uvc_uyvy2rgb"} /\ ret = "UVC_SUCCESS" /\ Pixels % 8 = 0) =>
    /\ Len(heap[out.data].mem) = 3 * Pixels
    /\ \A p \in 0..(Pixels - 1) :
         OutPixel(p) = <<Clamp(RedOf(p)), Clamp(GreenOf(p)), Clamp(BlueOf(p))>>

\* A conversion to RGB that succeeded on a pixel whose red term is negative and
\* not a whole number of 2^14ths, the red channel within range.
C1_Witness ==
  /\ op \in {"uvc_yuyv2rgb", "uvc_uyvy2rgb"} /\ ret = "UVC_SUCCESS" /\ Pixels % 8 = 0
  /\ \E p \in 0..(Pixels - 1) :
       /\ ChromaV(p) < 128 /\ (22987 * (128 - ChromaV(p))) % 16384 # 0
       /\ RedOf(p) \in 1..254

\* C2: after a successful conversion to BGR of a YUYV or UYVY frame whose pixel
\* count is a multiple of 8, every destination pixel is the pixel the
\* conversion to RGB produces with bytes 0 and 2 exchanged.
C2_BgrIsSwappedRgb ==
  ( /\ op \in {"uvc_yuyv2bgr", "uvc_uyvy2bgr", "uvc_any2bgr"}
    /\ in.frame_format \in {"YUYV", "UYVY"}
    /\ ret = "UVC_SUCCESS" /\ Pixels % 8 = 0 ) =>
    \A p \in 0..(Pixels - 1) :
      OutPixel(p) = <<Clamp(BlueOf(p)), Clamp(GreenOf(p)), Clamp(RedOf(p))>>

\* The channel stored at byte c of pixel p by the last conversion, unclamped.
Unclamped(p, c) ==
  LET rgb == <<RedOf(p), GreenOf(p), BlueOf(p)>>
  IN IF op = "uvc_uyvy2bgr" THEN rgb[3 - c] ELSE rgb[c + 1]

\* C3: every channel byte a kernel stores is its unclamped value clamped to
\* 0..255: 255 when the value exceeds 255, 0 when it is negative, the value
\* itself otherwise, never the value modulo 256.  The kernels that store
\* pixels are uvc_yuyv2rgb, uvc_uyvy2rgb and uvc_uyvy2bgr.
C3_Saturation ==
  ( /\ op \in {"uvc_yuyv2rgb", "uvc_uyvy2rgb", "uvc_uyvy2bgr"}
    /\ ret = "UVC_SUCCESS" /\ Pixels % 8 = 0 ) =>
    \A p \in 0..(Pixels - 1) : \A c \in 0..2 :
      LET x == Unclamped(p, c)
          b == OutByte(3 * p + c)
      IN /\ b \in 0..255
         /\ x > 255 => b = 255
         /\ x < 0 => b = 0
         /\ x \in 0..255 => b = x

\* A pixel of Y = 255, U = 255, V = 0 converted, a channel of it above 255
\* stored as 255, and a channel of another pixel below 0 stored as 0.
C3_Witness ==
  /\ op \in {"uvc_yuyv2rgb", "uvc_uyvy2rgb", "uvc_uyvy2bgr"}
  /\ ret = "UVC_SUCCESS" /\ Pixels % 8 = 0
  /\ \E p \in 0..(Pixels - 1) :
       /\ LumaOf(p) = 255 /\ ChromaU(p) = 255 /\ ChromaV(p) = 0
       /\ \E c \in 0..2 : Unclamped(p, c) > 255 /\ OutByte(3 * p + c) = 255
  /\ \E p \in 0..(Pixels - 1) :
       \E c \in 0..2 : Unclamped(p, c) < 0 /\ OutByte(3 * p + c) = 0

\* C4: uvc_yuyv2rgb on the 4x1 YUYV frame of bytes 235 128 235 128 235 128 235
\* 128, given memory, returns success and leaves a 4x1 destination of 12 bytes,
\* all of them 235.
C4_Gray4x1 ==
  ( /\ op = "uvc_yuyv2rgb"
    /\ in.frame_format = "YUYV" /\ in.width = 4 /\ in.height = 1
    /\ heap[SrcData].mem = <<235, 128, 235, 128, 235, 128, 235, 128>>
    /\ out.library_owns_data
    /\ ret # "UVC_ERROR_NO_MEM" ) =>
    /\ ret = "UVC_SUCCESS"
    /\ out.width = 4 /\ out.height = 1 /\ out.data_bytes = 12
    /\ heap[out.data].mem = [i \in 1..12 |-> 235]

----------------------------------------------------------------------------
(* Capacity, errors and the destination's fields *)

KernelOps ==
  {"uvc_yuyv2rgb", "uvc_yuyv2bgr", "uvc_yuyv2y", "uvc_yuyv2uv", "uvc_uyvy2rgb",
   "uvc_uyvy2bgr"}
Routers == {"uvc_any2rgb", "uvc_any2bgr"}
CopyOps == KernelOps \cup Routers \cup {"uvc_duplicate_frame"}

\* The source format a kernel declares.
DeclaredSource(name) ==
  IF name \in {"uvc_uyvy2rgb", "uvc_uyvy2bgr"} THEN "UYVY" ELSE "YUYV"

\* The format operation name gives the destination of frame f, if it takes f.
DestFormat(name, f) ==
  CASE name \in {"uvc_yuyv2rgb", "uvc_uyvy2rgb"} -> {"RGB"}
    [] name \in {"uvc_yuyv2bgr", "uvc_uyvy2bgr"} -> {"BGR"}
    [] name \in {"uvc_yuyv2y", "uvc_yuyv2uv"} -> {"GRAY8"}
    [] name = "uvc_any2rgb" /\ f.frame_format \in {"YUYV", "UYVY", "RGB"} -> {"RGB"}
    [] name = "uvc_any2bgr" /\ f.frame_format \in {"YUYV", "UYVY", "BGR"} -> {"BGR"}
    [] name = "uvc_duplicate_frame" -> {f.frame_format}
    [] OTHER -> {}

\* Whether operation name copies frame f as it is.
Duplicates(name, f) ==
  \/ name = "uvc_duplicate_frame"
  \/ name = "uvc_any2rgb" /\ f.frame_format = "RGB"
  \/ name = "uvc_any2bgr" /\ f.frame_format = "BGR"

\* The bytes operation name needs in the destination for frame f, if it takes f.
NeededBytes(name, f) ==
  IF name \in KernelOps /\ f.frame_format # DeclaredSource(name) THEN {}
  ELSE IF Duplicates(name, f) THEN {f.data_bytes}
  ELSE { f.width * f.height * (IF fmt = "GRAY8" THEN 1 ELSE 3) : fmt \in DestFormat(name, f) }

\* C5: a kernel called with a frame that is not of its declared source format
\* returns UVC_ERROR_INVALID_PARAM, calls no allocator (no realloc of the
\* destination's data, no request to uvc_ensure_frame_size, no block of the
\* heap changed) and leaves every field of the destination and every byte of
\* its buffers as they were.
C5_FormatMismatch ==
  [][ (op' \in KernelOps /\ in'.frame_format # DeclaredSource(op')) =>
        /\ ret' = "UVC_ERROR_INVALID_PARAM"
        /\ reallocs' = 0 /\ asked' = {}
        /\ out' = out /\ outLive' = outLive
        /\ \A a \in Arena \cup {CallerBuf} : heap'[a] = heap[a] ]_vars

\* uvc_yuyv2rgb refused a BGR frame, the destination holding a buffer.
C5_Witness ==
  /\ op = "uvc_yuyv2rgb" /\ in.frame_format = "BGR"
  /\ ret = "UVC_ERROR_INVALID_PARAM"
  /\ outLive /\ out.data # NULL /\ out.data_bytes > 0

\* C6: on a destination that does not own its data, uvc_ensure_frame_size
\* succeeds exactly when data is present and data_bytes >= need_bytes; a
\* conversion or duplication that needs more than data_bytes returns
\* UVC_ERROR_NO_MEM and leaves the buffer's contents and every field of the
\* destination unchanged; and no call, failed or successful, changes data or
\* data_bytes.
C6_Borrowed ==
  [][ (outLive /\ ~out.library_owns_data
         /\ op' \in CopyOps \cup {"uvc_ensure_frame_size"}) =>
        /\ out'.data = out.data /\ out'.data_bytes = out.data_bytes
        /\ op' = "uvc_ensure_frame_size" =>
             \E n \in asked' :
               /\ asked' = {n}
               /\ ret' = "UVC_SUCCESS" <=> (out.data # NULL /\ out.data_bytes >= n)
        /\ \A n \in NeededBytes(op', in') :
             n > out.data_bytes =>
               /\ ret' = "UVC_ERROR_NO_MEM"
               /\ out' = out
               /\ heap'[CallerBuf] = heap[CallerBuf] ]_vars

\* A conversion refused for want of room in a caller's buffer that holds data.
C6_Witness ==
  /\ outLive /\ ~out.library_owns_data /\ out.data = CallerBuf
  /\ op \in CopyOps /\ ret = "UVC_ERROR_NO_MEM"
  /\ \E n \in NeededBytes(op, in) : n > out.data_bytes
  /\ heap[CallerBuf].mem = [i \in 1..out.data_bytes |-> 170]

\* C7: when realloc fails in uvc_ensure_frame_size on an owning frame, the
\* call returns UVC_ERROR_NO_MEM and data and data_bytes are either both as
\* before the call or both updated: data_bytes never holds the requested size
\* while data is absent or refers to a buffer of another size.
C7_FailedReallocConsistent ==
  [][ (outLive /\ out.library_owns_data
         /\ op' = "uvc_ensure_frame_size" /\ ret' = "UVC_ERROR_NO_MEM") =>
        \/ out'.data = out.data /\ out'.data_bytes = out.data_bytes
        \/ /\ out'.data # NULL
           /\ \A n \in asked' :
                out'.data_bytes = n /\ Len(heap'[out'.data].mem) = n ]_vars

\* C8: on an owning frame, uvc_ensure_frame_size(frame, n), called directly or
\* by a conversion or duplication, calls realloc exactly when data is absent
\* or data_bytes # n; after a successful call data is present and data_bytes
\* is n, the block being of n bytes; without a realloc the buffer is the same
\* one, so a second call with the same n right after a successful one
\* reallocates nothing; and after a successful conversion or duplication
\* data_bytes is the byte count that operation requires.
C8_Owning ==
  [][ (outLive /\ out.library_owns_data
         /\ op' \in CopyOps \cup {"uvc_ensure_frame_size"}) =>
        /\ \A n \in asked' :
             /\ asked' = {n}
             /\ reallocs' = (IF out.data = NULL \/ out.data_bytes # n THEN 1 ELSE 0)
             /\ ret' = "UVC_SUCCESS" =>
                  /\ out'.data # NULL
                  /\ out'.data_bytes = n
                  /\ heap'[out'.data].live /\ Len(heap'[out'.data].mem) = n
             /\ reallocs' = 0 => out'.data = out.data
             /\ (op = "uvc_ensure_frame_size" /\ ret = "UVC_SUCCESS" /\ asked = {n}) =>
                  /\ reallocs' = 0 /\ out'.data = out.data
                  /\ op' = "uvc_ensure_frame_size" => ret' = "UVC_SUCCESS"
        /\ (op' \in CopyOps /\ ret' = "UVC_SUCCESS") =>
             /\ asked' = NeededBytes(op', in')
             /\ \E n \in NeededBytes(op', in') : out'.data_bytes = n ]_vars

\* A call of uvc_ensure_frame_size on an owning frame that found the size
\* asked for already there and kept the buffer.
C8_Witness ==
  /\ outLive /\ out.library_owns_data
  /\ op = "uvc_ensure_frame_size" /\ ret = "UVC_SUCCESS"
  /\ reallocs = 0 /\ asked = {out.data_bytes} /\ out.data_bytes > 0

\* C9: after a successful uvc_duplicate_frame of a frame into an owning
\* destination, the destination's data_bytes is the source's, its data is the
\* source's data byte for byte, and its format is the source's.
C9_Duplicate ==
  (outLive /\ out.library_owns_data
     /\ op = "uvc_duplicate_frame" /\ ret = "UVC_SUCCESS") =>
    /\ out.data_bytes = in.data_bytes
    /\ out.data # NULL
    /\ heap[out.data].mem = heap[in.data].mem
    /\ Len(heap[in.data].mem) = in.data_bytes
    /\ out.frame_format = in.frame_format

\* A duplication that succeeded into an owning destination.
C9_Witness ==
  /\ outLive /\ out.library_owns_data
  /\ op = "uvc_duplicate_frame" /\ ret = "UVC_SUCCESS"
  /\ in.data_bytes > 0 /\ out.data_bytes = in.data_bytes

\* C10: after a successful conversion or duplication, by any kernel or router,
\* the destination's width, height, sequence, capture_time,
\* capture_time_finished and source are the source frame's, its format is the
\* operation's destination format (the source's for a duplication), and its
\* step is width * 3 for RGB and BGR, width for GRAY8, the source's step for a
\* duplication.
C10_Fields ==
  (outLive /\ op \in CopyOps /\ ret = "UVC_SUCCESS") =>
    /\ out.width = in.width /\ out.height = in.height
    /\ out.sequence = in.sequence
    /\ out.capture_time = in.capture_time
    /\ out.capture_time_finished = in.capture_time_finished
    /\ out.source = in.source
    /\ DestFormat(op, in) = {out.frame_format}
    /\ out.step = (IF Duplicates(op, in) THEN in.step
                   ELSE IF out.frame_format = "GRAY8" THEN in.width
                   ELSE in.width * 3)

\* A conversion to GRAY8 that succeeded into a destination which an earlier
\* duplication of another frame had filled, metadata included.
C10_Witness ==
  /\ outLive /\ op = "uvc_yuyv2y" /\ ret = "UVC_SUCCESS"
  /\ out.metadata_bytes > 0 /\ in.metadata_bytes = 0
  /\ out.sequence = in.sequence

----------------------------------------------------------------------------
(* The source frame and the metadata *)

\* The delivery that frame f comes from.
SourceOf(f) == [fmt |-> f.frame_format, w |-> f.width, h |-> f.height, v |-> f.sequence]

\* C11: after a call of uvc_duplicate_frame, of a kernel or of a router,
\* returned or not, the source frame is as it was delivered: its fields, every
\* byte of its data and every byte of its metadata.
C11_SourceUntouched ==
  op \in CopyOps =>
    /\ in = FrameOf(SourceOf(in))
    /\ heap[SrcData] = Block(Payload(in.sequence - 1, in.data_bytes))
    /\ heap[SrcMeta] = Block(MetaPayload(SourceOf(in)))

\* A duplication of a frame with metadata that succeeded and left the copy in
\* the destination.
C11_Witness ==
  /\ op = "uvc_duplicate_frame" /\ ret = "UVC_SUCCESS"
  /\ in.metadata_bytes > 0 /\ in.data_bytes > 0
  /\ out.data \in Arena /\ heap[out.data].mem = heap[SrcData].mem

\* The bytes of the block at p, none for NULL.
MemAt(h, p) == IF p = NULL THEN << >> ELSE h[p].mem

\* C12: uvc_duplicate_frame of a source with metadata (metadata present,
\* metadata_bytes > 0), once the data is copied, leaves the destination with
\* the source's metadata_bytes and the source's metadata bytes in an
\* allocation of at least that size, and changes the allocation only when the
\* destination's metadata capacity was smaller than the source's
\* metadata_bytes; of a source without metadata it leaves the destination's
\* metadata, metadata_bytes and every block of it as they were.
C12_Metadata ==
  [][ (op' = "uvc_duplicate_frame" /\ ret' # "UVC_ERROR_NO_MEM") =>
        IF in'.metadata # NULL /\ in'.metadata_bytes > 0 THEN
          /\ out'.metadata_bytes = in'.metadata_bytes
          /\ out'.metadata # NULL
          /\ Len(heap'[out'.metadata].mem) >= out'.metadata_bytes
          /\ \A i \in 1..in'.metadata_bytes :
               heap'[out'.metadata].mem[i] = heap'[SrcMeta].mem[i]
          /\ Len(MemAt(heap, out.metadata)) >= in'.metadata_bytes =>
               /\ out'.metadata = out.metadata
               /\ Len(heap'[out'.metadata].mem) = Len(heap[out.metadata].mem)
        ELSE
          /\ out'.metadata = out.metadata
          /\ out'.metadata_bytes = out.metadata_bytes
          /\ MemAt(heap', out'.metadata) = MemAt(heap, out.metadata) ]_vars

----------------------------------------------------------------------------
(* The luma and chroma planes *)

\* C13: after a successful uvc_yuyv2y of a YUYV frame into an owning
\* destination, the destination is GRAY8 with step = width and
\* data_bytes = width * height, and byte i of it is byte 2*i of the source,
\* the luma of pixel i, for every i below width * height.
C13_Luma ==
  (op = "uvc_yuyv2y" /\ ret = "UVC_SUCCESS" /\ out.library_owns_data) =>
    /\ out.frame_format = "GRAY8" /\ out.step = in.width
    /\ out.data_bytes = Pixels /\ Len(heap[out.data].mem) = Pixels
    /\ \A i \in 0..(Pixels - 1) : OutByte(i) = SrcByte(2 * i)

\* A luma extraction that succeeded on a frame with a pixel whose luma differs
\* from the chroma byte next to it, and with two pixels of different luma.
C13_Witness ==
  /\ op = "uvc_yuyv2y" /\ ret = "UVC_SUCCESS" /\ out.library_owns_data
  /\ \E i \in 0..(Pixels - 1) : SrcByte(2 * i) # SrcByte(2 * i + 1)
  /\ \E i, j \in 0..(Pixels - 1) : OutByte(i) # OutByte(j)

----------------------------------------------------------------------------
(* The routers *)

\* The operation a router selects for a frame of format fmt, "none" when the
\* format has no path.
Target(name, fmt) ==
  CASE fmt = "YUYV" -> IF name = "uvc_any2rgb" THEN "uvc_yuyv2rgb" ELSE "uvc_yuyv2bgr"
    [] fmt = "UYVY" -> IF name = "uvc_any2rgb" THEN "uvc_uyvy2rgb" ELSE "uvc_uyvy2bgr"
    [] fmt = "RGB" /\ name = "uvc_any2rgb" -> "uvc_duplicate_frame"
    [] fmt = "BGR" /\ name = "uvc_any2bgr" -> "uvc_duplicate_frame"
    [] OTHER -> "none"

\* C15: uvc_any2rgb and uvc_any2bgr select by the format of the source alone:
\* YUYV and UYVY go to the matching kernel, RGB (uvc_any2rgb) and BGR
\* (uvc_any2bgr) to uvc_duplicate_frame, and the call leaves exactly what the
\* selected operation leaves and returns what it returns; every other format
\* (MJPEG with no JPEG decoder built in, GRAY8, GRAY16, H264, Bayer, NV12, RGB
\* given to uvc_any2bgr, BGR given to uvc_any2rgb) returns
\* UVC_ERROR_NOT_SUPPORTED with the destination frame and its buffers unchanged.
C15_Routers ==
  [][ op' \in Routers =>
        IF Target(op', in'.frame_format) = "none" THEN
          /\ ret' = "UVC_ERROR_NOT_SUPPORTED"
          /\ out' = out /\ outLive' = outLive
          /\ reallocs' = 0 /\ asked' = {}
          /\ \A a \in Arena \cup {CallerBuf} : heap'[a] = heap[a]
        ELSE
          \E o \in Apply(Target(op', in'.frame_format), in', out,
                         Delivered(heap, SourceOf(in'))) :
            /\ ret' = o.ret /\ out' = o.frame
            /\ heap' = Forget(o.heap, o.frame)
            /\ reallocs' = o.reallocs /\ asked' = o.asked /\ ub' = o.ub ]_vars

\* uvc_any2bgr refused an RGB frame, the destination holding a buffer.
C15_Witness ==
  /\ op = "uvc_any2bgr" /\ in.frame_format = "RGB"
  /\ ret = "UVC_ERROR_NOT_SUPPORTED"
  /\ outLive /\ out.data # NULL /\ out.data_bytes > 0

----------------------------------------------------------------------------
(* Allocation and release of frames *)

\* The blocks of the arena that are allocated.
Allocated(h) == { a \in Arena : h[a].live }

\* C16: uvc_allocate_frame(n) returns no frame, nothing being left
\* allocated, or a frame that owns its data, every other field zero, with a
\* data buffer of exactly n bytes and data_bytes = n when n > 0, and with no
\* data buffer and data_bytes = 0 when n = 0.
C16_Allocate ==
  op = "uvc_allocate_frame" =>
    \E n \in asked :
      /\ asked = {n}
      /\ \/ ret = "NULL" /\ ~outLive /\ Allocated(heap) = {}
         \/ /\ ret = "FRAME" /\ outLive
            /\ out.library_owns_data
            /\ [out EXCEPT !.data = NULL, !.data_bytes = 0,
                           !.library_owns_data = FALSE] = ZeroFrame
            /\ out.data_bytes = n
            /\ IF n > 0
                 THEN /\ out.data \in Arena
                      /\ Allocated(heap) = {out.data}
                      /\ Len(heap[out.data].mem) = n
                 ELSE out.data = NULL /\ Allocated(heap) = {}

\* An allocation of a frame with 24 bytes of data that returned no frame.
C16_Witness ==
  /\ op = "uvc_allocate_frame" /\ asked = {24}
  /\ ret = "NULL" /\ ~outLive /\ Allocated(heap) = {}

\* C17: uvc_free_frame of a frame that does not own its data frees the
\* control structure and leaves every block as it was, the data, metadata and
\* timestamp buffers of the frame included; of a frame that owns its data it
\* frees the data exactly when data_bytes > 0, the metadata exactly when
\* metadata_bytes > 0, the timestamp exactly when present, no other block,
\* and then the control structure.
C17_Release ==
  [][ op' = "uvc_free_frame" =>
        /\ outLive /\ ~outLive'
        /\ \A a \in Addr :
             heap'[a] =
               IF /\ out.library_owns_data
                  /\ \/ a = out.data /\ out.data_bytes > 0
                     \/ a = out.metadata /\ out.metadata_bytes > 0
                     \/ a = out.time_stamp
               THEN FreeBlock
               ELSE heap[a] ]_vars

\* A frame around a caller's buffer released after a duplication gave it
\* metadata: the caller's buffer and the metadata block are as they were.
C17_Witness ==
  /\ op = "uvc_free_frame" /\ ~outLive
  /\ heap[CallerBuf].live /\ Len(heap[CallerBuf].mem) > 0
  /\ Allocated(heap) # {}

----------------------------------------------------------------------------
(* The extent of the kernels' loops *)

\* The kernels that have a pixel loop.
LoopKernels == KernelOps \ {"uvc_yuyv2bgr"}

\* C20: a kernel that returns success, whatever the width and height and
\* whether the destination owns its data or was built around a caller's buffer
\* larger than needed, has stored only below the needed size (the bytes of the
\* destination beyond it are as they were) and has read and stored nothing
\* beyond the end of the source and of the destination.
C20_LoopExtent ==
  [][ (op' \in LoopKernels /\ ret' = "UVC_SUCCESS") =>
        /\ ub' = {}
        /\ \A n \in NeededBytes(op', in') :
             ~out.library_owns_data =>
               \A i \in (n + 1)..Len(heap[CallerBuf].mem) :
                 heap'[CallerBuf].mem[i] = heap[CallerBuf].mem[i] ]_vars

----------------------------------------------------------------------------
(* The capture callback *)

\* C18: in every invocation of cb that obtained the bgr frame, the frame
\* exists until it is released, it is released exactly once before the
\* callback returns, after a failed conversion as on the normal path, and it
\* is not used after its release; when the callback has returned, after a
\* failed conversion too, no block is left allocated and the callback can be
\* invoked with the next frame.
C18_ScratchReleased ==
  /\ ~cb.stale
  /\ cb.pc \in {"switch", "save", "release"} => outLive /\ cb.frees = 0
  /\ (cb.pc = "idle" /\ cb.allocated) => cb.frees = 1
  /\ cb.pc = "idle" =>
       /\ ~outLive
       /\ Allocated(heap) = {}
       /\ cb.calls < MaxFrames => ENABLED CbEnter

\* The invocation after one whose conversion failed has allocated, converted
\* and saved its frame, and has returned.
C18_Witness ==
  /\ cb.pc = "idle" /\ cb.fails > 0 /\ ~cb.failed
  /\ cb.allocated /\ cb.frees = 1 /\ cb.made = 1
  /\ in.frame_format = "YUYV"

\* C19: every file written is named frame_<N>.jpeg with N the callback's
\* counter, greater than the N of every file written before it; and in
\* example.c, memory and the file system permitting, a frame delivered with a
\* payload error in format MJPEG or YUYV has produced exactly one file when
\* the callback returns: the frame's own bytes for MJPEG, the converted image
\* for YUYV.
C19_Artifacts ==
  /\ \A i, j \in DOMAIN cb.files : i < j => cb.files[i].n < cb.files[j].n
  /\ \A i \in DOMAIN cb.files : cb.files[i].n < cb.jpeg_count
  /\ ( /\ cb.prog = "example" /\ cb.pc = "idle" /\ cb.calls > 0
       /\ cb.payload_error /\ ~cb.denied
       /\ in.frame_format \in {"MJPEG", "YUYV"} ) =>
       /\ cb.made = 1
       /\ cb.files[Len(cb.files)].kind =
            IF in.frame_format = "MJPEG" THEN "raw" ELSE "jpeg"

----------------------------------------------------------------------------
(* What a release leaves allocated *)

\* C21: uvc_free_frame of a frame that owns its data, after any sequence of
\* uvc_ensure_frame_size, conversion and duplication calls on it (requests
\* for zero bytes, for fewer bytes, and calls whose realloc failed included),
\* leaves no block allocated, and every buffer it frees is present and
\* allocated at that moment, the data and the metadata being two blocks.
C21_ReleaseFreesAll ==
  [][ (op' = "uvc_free_frame" /\ out.library_owns_data) =>
        /\ Allocated(heap') = {}
        /\ out.data_bytes > 0 => out.data # NULL /\ heap[out.data].live
        /\ out.metadata_bytes > 0 =>
             out.metadata # NULL /\ heap[out.metadata].live
        /\ (out.data_bytes > 0 /\ out.metadata_bytes > 0) =>
             out.data # out.metadata ]_vars

====
